---------------------------- MODULE Spec2Model ----------------------------
(***************************************************************************)
(* Account lifecycle of the user-management database: the trial state      *)
(* machine (user_trials), the billing linkage (stripe_customers,            *)
(* stripe_subscriptions), the derived per-user summary (user_account_state) *)
(* and the account-deletion flow of the dashboard pages.                    *)
(*                                                                          *)
(* Two setup scripts define the database functions.  The variable `script`  *)
(* records which of them was installed: COMPLETE_DATABASE_SETUP.sql or      *)
(* FINAL_COMPLETE_DATABASE_SETUP.sql.                                       *)
(*                                                                          *)
(* Time is counted in ticks, Day ticks to a day, so that "less than a day"  *)
(* is representable.  The updated_at / created_at bookkeeping columns are   *)
(* not part of the state.  Every customer has at most one subscription row  *)
(* (stripe_subscriptions.customer_id is unique in COMPLETE).                *)
(***************************************************************************)
EXTENDS Integers, FiniteSets, Sequences, TLC

\* ------------------------------------------------------------------ bounds
Day == 2
Lead == 1
Slack == 2

\* ------------------------------------------------------- program constants
TrialDays == 7
GraceDays == 1
HundredYearsDays == 36500
InfiniteTrialDays == 999999

SuperAdminId == "b8782453"
Users == {SuperAdminId, "u1"}
Procs == {1, 2}

NULL == -1

\* interval arithmetic of the scripts, in ticks
TrialLength == TrialDays * Day
Grace == GraceDays * Day
HundredYears == HundredYearsDays * Day
\* the account signs up at time 0; the clock is followed from Lead ticks before the
\* end of its trial until Slack ticks after the end of its grace period
StartTime == TrialLength - Lead
MaxTime == TrialLength + Grace + Slack

TrialStatuses == {"active", "expired", "converted_to_paid", "scheduled_for_deletion"}
\* the stripe_subscription_status values both scripts share; the webhook's inputs
StripeStatuses == {"active", "trialing", "past_due", "canceled", "unpaid"}

NoTrial == [end |-> NULL, status |-> "none", dsa |-> NULL]
NoSub == [status |-> "none", deleted |-> FALSE]
NoState == [account_status |-> "no_row", access_level |-> "no_row", has_access |-> FALSE,
            trial_days_remaining |-> 0, stripe_status |-> "null"]
NoSnap == [user |-> "nobody", err |-> FALSE, row |-> NoState]

VARIABLES
    script,     \* which setup script defined the functions
    now,        \* now()
    auth,       \* auth.users: the ids that exist
    trial,      \* user_trials row per user: end = trial_end_date, dsa = deletion_scheduled_at
    cust,       \* stripe_customers row per user: "none", "live", "tomb" (deleted_at set)
    sub,        \* stripe_subscriptions row of the user's customer
    state,      \* user_account_state row per user
    axie,       \* the external workspace accounts per user: "absent", "present", "duplicate"
    phase,      \* what ran last: "idle", "trials", "full", "sub_write"
    sssPc,      \* position of a statement-by-statement sync_subscription_status run
    hooked,     \* users whose subscription became active/trialing during that run
    susPc,      \* position of each concurrent sync_user_state call
    susSnap,    \* what each concurrent sync_user_state call has read
    delPc,      \* position of the account-deletion handler
    del,        \* the handler's page, user, session and what the endpoint answered
    sent,       \* per user, the last creation request sent to the workspace provider
    rq,         \* the delete requests the endpoint is serving
    recon       \* the caller of the latest trial reconciliation and what it has run

vars == <<script, now, auth, trial, cust, sub, state, axie, phase,
          sssPc, hooked, susPc, susSnap, delPc, del, sent, rq, recon>>

dbVars == <<trial, cust, sub, state>>
concVars == <<sssPc, hooked, susPc, susSnap>>
delVars == <<delPc, del, sent, rq, recon>>

NoDel == [page |-> "none", user |-> "nobody", session |-> FALSE, resp |-> "none",
          localDeleted |-> FALSE]
NoRequest == [made |-> FALSE, asked |-> FALSE,
              userData |-> [username |-> "nobody", password |-> FALSE, is_active |-> FALSE,
                            is_superuser |-> FALSE]]
NoRq == [pc |-> "idle", user |-> "nobody", authorized |-> FALSE, found |-> FALSE,
         answer |-> "none", status |-> 0]
NoRecon == [caller |-> "none", ran |-> <<>>]


\* ------------------------------------------------------------ row predicates

\* SELECT DISTINCT c.user_id FROM stripe_customers c JOIN stripe_subscriptions s ...
\* WHERE s.status IN ('active','trialing') AND s.deleted_at IS NULL AND c.deleted_at IS NULL
HasActiveSub(u) ==
    /\ cust[u] = "live"
    /\ sub[u].status \in {"active", "trialing"}
    /\ ~sub[u].deleted

\* the "user_id != 'b8782453-...'" conjunct, present in FINAL only
NotSuperAdmin(u) == script = "FINAL" => u # SuperAdminId

\* a conversion that forgets to clear deletion_scheduled_at
Converted_KeepsSchedule(row) == [row EXCEPT !.status = "converted_to_paid"]

Converted(row) == [row EXCEPT !.status = "converted_to_paid", !.dsa = NULL]

\* a first UPDATE that converts only trials still active
ConvertWhere_OnlyActive(tr, u) ==
    /\ tr[u].status = "active"
    /\ HasActiveSub(u)

\* a first UPDATE that leaves the administrative identity out
ConvertWhere_NotAdmin(tr, u) ==
    /\ tr[u].status \in TrialStatuses \ {"converted_to_paid"}
    /\ u # SuperAdminId
    /\ HasActiveSub(u)

\* first UPDATE of sync_subscription_status
ConvertWhere(tr, u) ==
    /\ tr[u].status \in TrialStatuses \ {"converted_to_paid"}
    /\ HasActiveSub(u)

\* a second UPDATE whose status test is "not yet expired" instead of "active"
ExpireWhere_NotExpired(tr, u) ==
    /\ tr[u].status \in TrialStatuses \ {"expired"}
    /\ tr[u].end < now
    /\ NotSuperAdmin(u)
    /\ ~HasActiveSub(u)

\* a second UPDATE without the NOT IN (paying customers) safety check
ExpireWhere_NoSubCheck(tr, u) ==
    /\ tr[u].status = "active"
    /\ tr[u].end < now
    /\ NotSuperAdmin(u)

\* a second UPDATE that also takes rows already scheduled for deletion
ExpireWhere_AlsoScheduled(tr, u) ==
    /\ tr[u].status \in {"active", "scheduled_for_deletion"}
    /\ tr[u].end < now
    /\ NotSuperAdmin(u)
    /\ ~HasActiveSub(u)

\* a second UPDATE that also takes converted trials whose subscription has gone
ExpireWhere_AlsoConverted(tr, u) ==
    /\ tr[u].status \in {"active", "converted_to_paid"}
    /\ tr[u].end < now
    /\ NotSuperAdmin(u)
    /\ ~HasActiveSub(u)

\* second UPDATE of sync_subscription_status
ExpireWhere(tr, u) ==
    /\ tr[u].status = "active"
    /\ tr[u].end < now
    /\ NotSuperAdmin(u)
    /\ ~HasActiveSub(u)

\* a third UPDATE that does not wait for deletion_scheduled_at
ScheduleWhere_NoDateCheck(tr, u) ==
    /\ tr[u].status = "expired"
    /\ NotSuperAdmin(u)
    /\ ~HasActiveSub(u)

\* a third UPDATE that compares trial_end_date, not deletion_scheduled_at, with now()
ScheduleWhere_ByTrialEnd(tr, u) ==
    /\ tr[u].status = "expired"
    /\ tr[u].end < now
    /\ NotSuperAdmin(u)
    /\ ~HasActiveSub(u)

\* third UPDATE of sync_subscription_status
ScheduleWhere(tr, u) ==
    /\ tr[u].status = "expired"
    /\ tr[u].dsa # NULL
    /\ tr[u].dsa < now
    /\ NotSuperAdmin(u)
    /\ ~HasActiveSub(u)

SssConvert(tr) ==
    [u \in Users |-> IF ConvertWhere(tr, u) THEN Converted(tr[u]) ELSE tr[u]]

\* a second UPDATE that sets the deletion date to now(), without grace period
SssExpire_NoGrace(tr) ==
    [u \in Users |-> IF ExpireWhere(tr, u)
                     THEN [tr[u] EXCEPT !.status = "expired", !.dsa = now]
                     ELSE tr[u]]

\* a second UPDATE that marks the row expired and sets no deletion date
SssExpire_NoDate(tr) ==
    [u \in Users |-> IF ExpireWhere(tr, u)
                     THEN [tr[u] EXCEPT !.status = "expired"]
                     ELSE tr[u]]

SssExpire(tr) ==
    [u \in Users |-> IF ExpireWhere(tr, u)
                     THEN [tr[u] EXCEPT !.status = "expired", !.dsa = now + Grace]
                     ELSE tr[u]]

\* a third UPDATE that removes the row instead of marking it
SssSchedule_DeletesRow(tr) ==
    [u \in Users |-> IF ScheduleWhere(tr, u) THEN NoTrial ELSE tr[u]]

SssSchedule(tr) ==
    [u \in Users |-> IF ScheduleWhere(tr, u)
                     THEN [tr[u] EXCEPT !.status = "scheduled_for_deletion"]
                     ELSE tr[u]]

sync_subscription_status(tr) == SssSchedule(SssExpire(SssConvert(tr)))

\* a protect phase that leaves deletion_scheduled_at as it was
protect_paying_customers_KeepsSchedule(tr) ==
    [u \in Users |-> IF tr[u].status \in {"expired", "scheduled_for_deletion"} /\ HasActiveSub(u)
                     THEN [tr[u] EXCEPT !.status = "converted_to_paid"]
                     ELSE tr[u]]

protect_paying_customers(tr) ==
    [u \in Users |-> IF tr[u].status \in {"expired", "scheduled_for_deletion"} /\ HasActiveSub(u)
                     THEN Converted(tr[u])
                     ELSE tr[u]]

check_expired_trials(tr) == sync_subscription_status(protect_paying_customers(tr))

mark_trial_converted(tr, p) ==
    [u \in Users |-> IF u = p /\ tr[u].status # "none" THEN Converted(tr[u]) ELSE tr[u]]

\* a sweeper query that trusts the stored trial_status and does not look at billing
get_users_for_deletion_NoSubCheck ==
    {u \in auth :
        /\ trial[u].status = "scheduled_for_deletion"
        /\ NotSuperAdmin(u)
        /\ trial[u].end < now - Grace}

\* the rows get_users_for_deletion returns
get_users_for_deletion ==
    {u \in auth :
        /\ trial[u].status = "scheduled_for_deletion"
        /\ NotSuperAdmin(u)
        /\ ~HasActiveSub(u)
        /\ trial[u].end < now - Grace}


\* ------------------------------------------------------------ sync_user_state

\* EXTRACT(days FROM (trial_end_date - now()))::integer, 0 once the end has passed,
\* NULL when the user has no user_trials row
TrialDaysRemaining(tr) ==
    IF tr.status = "none" THEN NULL
    ELSE IF tr.end > now THEN (tr.end - now) \div Day
    ELSE 0

\* FINAL: stripe_customers sc LEFT JOIN stripe_subscriptions ss ON ... AND ss.deleted_at IS NULL
\* WHERE sc.user_id = p_user_id; no row leaves both variables NULL
FinalSubscriptionStatus(c, s) ==
    IF c = "none" THEN "null"
    ELSE IF s.status # "none" /\ ~s.deleted THEN s.status
    ELSE "none"

\* The row the UPDATE of FINAL's sync_user_state writes.  The CASE results are taken to
\* be stored in the enum columns account_status and access_level as written.
FinalSyncRow(tr, c, s) ==
    LET v_subscription_status == FinalSubscriptionStatus(c, s)
        v_has_subscription == v_subscription_status \in {"active", "trialing"}
        v_trial_days == TrialDaysRemaining(tr)
    IN  [account_status |-> IF v_has_subscription THEN "active"
                            ELSE IF v_trial_days > 0 THEN "trial" ELSE "expired",
         access_level |-> IF v_has_subscription THEN "pro"
                          ELSE IF v_trial_days > 0 THEN "trial" ELSE "none",
         has_access |-> v_has_subscription \/ v_trial_days > 0,
         trial_days_remaining |-> IF v_trial_days = NULL THEN 0 ELSE v_trial_days,
         stripe_status |-> v_subscription_status]

\* v_subscription_status::stripe_subscription_status: 'none' is no value of the enum
FinalSyncRaises(c, s) == FinalSubscriptionStatus(c, s) = "none"

\* a status read that takes only an active subscription into account
CompleteSubscriptionStatus_OnlyActive(c, s) ==
    IF c = "live" /\ s.status = "active" /\ ~s.deleted THEN s.status ELSE "null"

\* COMPLETE: stripe_customers c LEFT JOIN stripe_subscriptions s
\* WHERE c.user_id = p_user_id AND c.deleted_at IS NULL AND (s.deleted_at IS NULL OR ...)
CompleteSubscriptionStatus(c, s) ==
    IF c = "live" /\ s.status # "none" /\ ~s.deleted THEN s.status ELSE "null"

CompleteSyncRow(tr, c, s) ==
    LET status == CompleteSubscriptionStatus(c, s)
        class == IF status = "active" THEN <<"subscription_active", TRUE, "pro">>
                 ELSE IF status = "trialing" THEN <<"subscription_trialing", TRUE, "pro">>
                 ELSE IF status = "past_due" THEN <<"subscription_past_due", FALSE, "suspended">>
                 ELSE IF status = "canceled" THEN <<"subscription_canceled", FALSE, "trial">>
                 ELSE IF tr.status = "active" /\ tr.end > now THEN <<"trial_active", TRUE, "trial">>
                 ELSE <<"trial_expired", FALSE, "suspended">>
    IN  [account_status |-> class[1],
         access_level |-> class[3],
         has_access |-> class[2],
         trial_days_remaining |-> IF tr.status # "none" /\ tr.end > now
                                  THEN (tr.end - now) \div Day ELSE 0,
         stripe_status |-> status]

\* what sync_user_state(p_user_id) does with the rows it reads: the row it writes
\* into user_account_state, or the error it raises
sync_user_state(tr, c, s) ==
    IF script = "FINAL"
    THEN [err |-> FinalSyncRaises(c, s), row |-> FinalSyncRow(tr, c, s)]
    ELSE [err |-> FALSE, row |-> CompleteSyncRow(tr, c, s)]

SyncOf(u) == sync_user_state(trial[u], cust[u], sub[u])

\* reads of the derived state, as the pages make them
has_access(u) == state[u].has_access
access_level(u) == state[u].access_level
account_status(u) == state[u].account_status

\* the phase after a sync_user_state that followed the trial pass
AfterSync == IF phase \in {"trials", "full"} THEN "full" ELSE "idle"


\* ------------------------------------------------------------------- Init

\* create_complete_user_profile: the user_account_state row a signup inserts
NewAccountState ==
    IF script = "FINAL"
    THEN [account_status |-> "trial", access_level |-> "trial", has_access |-> TRUE,
          trial_days_remaining |-> TrialDays, stripe_status |-> "null"]
    ELSE [account_status |-> "trial_active", access_level |-> "trial", has_access |-> TRUE,
          trial_days_remaining |-> TrialDays, stripe_status |-> "null"]

\* INSERT INTO user_trials (user_id, trial_start_date, trial_end_date) at time t;
\* trial_status and deletion_scheduled_at take their defaults
NewTrial(t) == [end |-> t + TrialLength, status |-> "active", dsa |-> NULL]

Quiet ==
    /\ axie = [u \in Users |-> "absent"]
    /\ phase = "idle"
    /\ sssPc = "idle"
    /\ hooked = {}
    /\ susPc = [p \in Procs |-> "idle"]
    /\ susSnap = [p \in Procs |-> NoSnap]
    /\ delPc = "idle"
    /\ del = NoDel
    /\ sent = [u \in Users |-> NoRequest]
    /\ rq = [p \in Procs |-> NoRq]
    /\ recon = NoRecon

\* The database when observation starts: one account, the super admin's or an
\* ordinary one, signed up at time 0 (on_auth_user_created_enhanced) and has not been
\* touched since; the clock stands Lead ticks before the end of its trial.
Init ==
    /\ script \in {"COMPLETE", "FINAL"}
    /\ now = StartTime
    /\ \E a \in Users :
        /\ auth = {a}
        /\ trial = [u \in Users |-> IF u = a THEN NewTrial(0) ELSE NoTrial]
        /\ state = [u \in Users |-> IF u = a THEN NewAccountState ELSE NoState]
    /\ cust = [u \in Users |-> "none"]
    /\ sub = [u \in Users |-> NoSub]
    /\ Quiet

\* ---------------------------------------------------------------- actions

\* UPDATE user_account_state SET ... WHERE user_id = p_user_id, the only write of
\* sync_user_state: where the user has no row, no row is written
UpdateState(st, u, row) ==
    IF st[u] = NoState THEN st ELSE [st EXCEPT ![u] = row]

\* the clock
Tick ==
    /\ now < MaxTime
    /\ now' = now + 1
    /\ phase' = "idle"
    /\ UNCHANGED <<script, auth, dbVars, axie, concVars, delVars>>

\* the billing collaborator creates the stripe_customers row of a user
StripeCustomerInsert(u) ==
    /\ u \in auth
    /\ cust[u] = "none"
    /\ cust' = [cust EXCEPT ![u] = "live"]
    /\ phase' = "idle"
    /\ UNCHANGED <<script, now, auth, trial, sub, state, axie, concVars, delVars>>

\* the billing collaborator tombstones the stripe_customers row (deleted_at := now())
StripeCustomerTombstone(u) ==
    /\ cust[u] = "live"
    /\ cust' = [cust EXCEPT ![u] = "tomb"]
    /\ phase' = "idle"
    /\ UNCHANGED <<script, now, auth, trial, sub, state, axie, concVars, delVars>>

\* on_subscription_change of COMPLETE: the trial row after the trigger
CompleteOnSubscriptionChange(tr, u, new) ==
    IF new.status \in {"active", "trialing"} /\ cust[u] = "live" /\ tr[u].status # "none"
    THEN [tr EXCEPT ![u] = Converted(tr[u])]
    ELSE tr

\* on_subscription_change of FINAL: PERFORM sync_user_state(owner of NEW.customer_id)
FinalOnSubscriptionChange(u, new) == sync_user_state(trial[u], cust[u], new)

\* INSERT or UPDATE of the user's stripe_subscriptions row, with its AFTER trigger
\* on_subscription_change in the same transaction; an error in the trigger aborts the write
StripeSubscriptionWrite(u, new) ==
    /\ cust[u] # "none"
    /\ new # sub[u]
    /\ IF script = "FINAL"
       THEN LET r == FinalOnSubscriptionChange(u, new)
            IN  IF r.err
                THEN UNCHANGED <<sub, trial, state, phase, hooked>>
                ELSE /\ sub' = [sub EXCEPT ![u] = new]
                     /\ state' = UpdateState(state, u, r.row)
                     /\ phase' = "sub_write"
                     /\ hooked' = IF sssPc # "idle" /\ new.status \in {"active", "trialing"}
                                  THEN hooked \cup {u} ELSE hooked
                     /\ UNCHANGED trial
       ELSE /\ sub' = [sub EXCEPT ![u] = new]
            /\ trial' = CompleteOnSubscriptionChange(trial, u, new)
            /\ phase' = "sub_write"
            /\ hooked' = IF sssPc # "idle" /\ new.status \in {"active", "trialing"}
                         THEN hooked \cup {u} ELSE hooked
            /\ UNCHANGED state
    /\ UNCHANGED <<script, now, auth, cust, axie, sssPc, susPc, susSnap, delVars>>

ProtectPayingCustomers ==
    /\ trial' = protect_paying_customers(trial)
    /\ phase' = "idle"
    /\ UNCHANGED <<script, now, auth, cust, sub, state, axie, concVars, delVars>>

SyncSubscriptionStatus ==
    /\ trial' = sync_subscription_status(trial)
    /\ phase' = "trials"
    /\ UNCHANGED <<script, now, auth, cust, sub, state, axie, concVars, delVars>>

CheckExpiredTrials ==
    /\ trial' = check_expired_trials(trial)
    /\ phase' = "trials"
    /\ UNCHANGED <<script, now, auth, cust, sub, state, axie, concVars, delVars>>

MarkTrialConverted(u) ==
    /\ u \in auth
    /\ trial' = mark_trial_converted(trial, u)
    /\ phase' = "idle"
    /\ UNCHANGED <<script, now, auth, cust, sub, state, axie, concVars, delVars>>

\* sync_user_state(p_user_id) called on its own, as one transaction
SyncUserState(u) ==
    /\ u \in auth
    /\ LET r == SyncOf(u)
       IN  IF r.err
           THEN UNCHANGED <<state, phase>>
           ELSE /\ state' = UpdateState(state, u, r.row)
                /\ phase' = AfterSync
    /\ UNCHANGED <<script, now, auth, trial, cust, sub, axie, concVars, delVars>>

\* sync_all_users: one loop in one transaction, no exception handler
sync_all_users(st) ==
    IF \E u \in auth : SyncOf(u).err
    THEN st
    ELSE [u \in Users |-> IF u \in auth THEN UpdateState(st, u, SyncOf(u).row)[u] ELSE st[u]]

SyncAllUsers ==
    /\ auth # {}
    /\ state' = sync_all_users(state)
    /\ phase' = IF \E u \in auth : SyncOf(u).err THEN phase ELSE AfterSync
    /\ UNCHANGED <<script, now, auth, trial, cust, sub, axie, concVars, delVars>>

\* the super admin initialization block of FINAL (the script may be run again)
SuperAdminTrial(row) ==
    IF row.status = "none"
    THEN [end |-> now + HundredYears, status |-> "active", dsa |-> NULL]
    ELSE [row EXCEPT !.end = now + HundredYears, !.status = "active"]

SuperAdminState(row) ==
    [row EXCEPT !.account_status = "active", !.access_level = "enterprise",
                !.has_access = TRUE, !.trial_days_remaining = InfiniteTrialDays]

SuperAdminInit ==
    /\ script = "FINAL"
    /\ SuperAdminId \in auth
    /\ trial' = [trial EXCEPT ![SuperAdminId] = SuperAdminTrial(trial[SuperAdminId])]
    /\ state' = [state EXCEPT ![SuperAdminId] = SuperAdminState(state[SuperAdminId])]
    /\ phase' = "idle"
    /\ UNCHANGED <<script, now, auth, cust, sub, axie, concVars, delVars>>

\* the closing statements of COMPLETE: SELECT sync_subscription_status();
\* SELECT protect_paying_customers(); SELECT sync_all_users();
CompleteInitialSync ==
    /\ script = "COMPLETE"
    /\ auth # {}
    /\ LET tr == protect_paying_customers(sync_subscription_status(trial))
       IN  /\ trial' = tr
           /\ state' = [u \in Users |->
                          IF u \in auth
                          THEN UpdateState(state, u, sync_user_state(tr[u], cust[u], sub[u]).row)[u]
                          ELSE state[u]]
    /\ phase' = "full"
    /\ UNCHANGED <<script, now, auth, cust, sub, axie, concVars, delVars>>

SubRows == [status : StripeStatuses, deleted : BOOLEAN]

Next ==
    \/ Tick
    \/ \E u \in Users : StripeCustomerInsert(u)
    \/ \E u \in Users : StripeCustomerTombstone(u)
    \/ \E u \in Users, new \in SubRows : StripeSubscriptionWrite(u, new)
    \/ ProtectPayingCustomers
    \/ SyncSubscriptionStatus
    \/ CheckExpiredTrials
    \/ \E u \in Users : MarkTrialConverted(u)
    \/ \E u \in Users : SyncUserState(u)
    \/ SyncAllUsers
    \/ SuperAdminInit
    \/ CompleteInitialSync

Spec == Init /\ [][Next]_vars


\* ------------------------------------------------------------------ claims

Paid(u) == HasActiveSub(u)

\* C1: after a reconciler run (the trial pass, then sync_user_state) a user whose live
\* billing linkage is active or trialing has trial_status converted_to_paid and the
\* derived has_access true.
C1_PaidUserConvertedWithAccess ==
    \A u \in auth :
        (phase = "full" /\ Paid(u)) =>
            (trial[u].status = "converted_to_paid" /\ has_access(u))

\* a paid user whose trial had run out and whose grace period had passed, after a run
C1_Witness ==
    \E u \in auth :
        /\ phase = "full"
        /\ Paid(u)
        /\ trial[u].end < now - Grace
        /\ trial[u].status = "converted_to_paid"
        /\ has_access(u)

\* C2: get_users_for_deletion returns only users that are scheduled_for_deletion, have no
\* live active or trialing subscription, whose trial ended more than the grace period
\* ago, and that are not the protected administrative identity.
C2_SweeperSelectsOnlyEligible ==
    \A u \in get_users_for_deletion :
        /\ trial[u].status = "scheduled_for_deletion"
        /\ ~Paid(u)
        /\ trial[u].end < now - Grace
        /\ u # SuperAdminId

\* C3: the protected administrative identity has the derived has_access true after a
\* reconciler run and is never in expired or scheduled_for_deletion.
C3_AdminAlwaysProtected ==
    SuperAdminId \in auth =>
        /\ trial[SuperAdminId].status \notin {"expired", "scheduled_for_deletion"}
        /\ phase = "full" => has_access(SuperAdminId)

\* the edges of the trial state machine
TrialEdge(from, to) ==
    \/ from = "active" /\ to = "expired"
    \/ from = "expired" /\ to = "scheduled_for_deletion"
    \/ from \in {"active", "expired", "scheduled_for_deletion"} /\ to = "converted_to_paid"

\* C5 as stated: every change of an existing user's trial_status follows an edge of the
\* state machine; nothing leaves converted_to_paid or returns to active.
C5_OnlyStateMachineEdges ==
    [][\A u \in Users :
        (trial[u].status # "none" /\ trial'[u].status # trial[u].status)
            => TrialEdge(trial[u].status, trial'[u].status)]_vars

\* C5 amended: every change of an existing user's trial_status follows an edge of the
\* state machine, except that the super admin initialization block resets the
\* administrative identity's trial_status to active.
C5_EdgesExceptAdminInit ==
    [][\A u \in Users :
        (trial[u].status # "none" /\ trial'[u].status # trial[u].status)
            => \/ TrialEdge(trial[u].status, trial'[u].status)
               \/ /\ u = SuperAdminId
                  /\ SuperAdminInit
                  /\ trial'[u].status = "active"]_vars

\* a converted user who no longer pays and whose trial is long over stays converted
\* through a trial pass
C5_Witness ==
    \E u \in auth :
        /\ phase = "trials"
        /\ trial[u].status = "converted_to_paid"
        /\ ~Paid(u)
        /\ trial[u].end < now - Grace

\* C6: deletion_scheduled_at gets a non-null value only on the step from active to
\* expired, every step into converted_to_paid clears it, and so a converted trial
\* never carries a deletion date.
C6_DeletionDateOnlyWhileExpiring ==
    /\ [](\A u \in Users : trial[u].status = "converted_to_paid" => trial[u].dsa = NULL)
    /\ [][\A u \in Users :
            /\ (trial'[u].dsa # trial[u].dsa /\ trial'[u].dsa # NULL)
                  => (trial[u].status = "active" /\ trial'[u].status = "expired")
            /\ (trial'[u].status = "converted_to_paid" /\ trial[u].status # "converted_to_paid")
                  => trial'[u].dsa = NULL]_vars

\* a user converted after the trial had expired: the deletion date is gone
C6_Witness ==
    \E u \in auth :
        /\ trial[u].status = "converted_to_paid"
        /\ trial[u].end < now
        /\ Paid(u)
        /\ trial[u].dsa = NULL

\* C8: right after a subscription row is written, the derived state and the trial
\* status of its owner reflect the new billing status.
C8_WriteReconcilesOwner ==
    \A u \in auth :
        phase = "sub_write" =>
            /\ state[u] = SyncOf(u).row
            /\ Paid(u) => trial[u].status = "converted_to_paid"

\* C10: a second reconciler run with the clock and the inputs unchanged changes nothing:
\* the trial pass leaves user_trials as the first run left it and sync_user_state
\* writes the row that is already there.
C10_ReconcileIdempotent ==
    phase = "full" =>
        /\ check_expired_trials(trial) = trial
        /\ \A u \in auth : state[u] = SyncOf(u).row

\* a run that has just expired a trial
C10_Witness ==
    \E u \in auth :
        /\ phase = "full"
        /\ trial[u].status = "expired"
        /\ trial[u].dsa = now + Grace
        /\ ~has_access(u)


\* ------------------------------------------- concurrent callers (READ COMMITTED)

\* sync_subscription_status statement by statement: every UPDATE sees what other
\* transactions have committed before it starts
SssStatement1 ==
    /\ sssPc = "idle"
    /\ trial' = SssConvert(trial)
    /\ sssPc' = "converted"
    /\ hooked' = {}
    /\ phase' = "idle"
    /\ UNCHANGED <<script, now, auth, cust, sub, state, axie, susPc, susSnap, delVars>>

SssStatement2 ==
    /\ sssPc = "converted"
    /\ trial' = SssExpire(trial)
    /\ sssPc' = "expired"
    /\ phase' = "idle"
    /\ UNCHANGED <<script, now, auth, cust, sub, state, axie, hooked, susPc, susSnap, delVars>>

SssStatement3 ==
    /\ sssPc = "expired"
    /\ trial' = SssSchedule(trial)
    /\ sssPc' = "idle"
    /\ phase' = "idle"
    /\ UNCHANGED <<script, now, auth, cust, sub, state, axie, hooked, susPc, susSnap, delVars>>

\* the clock between runs (now() is fixed within a transaction)
TickBetweenRuns ==
    /\ sssPc = "idle"
    /\ Tick

NextSss ==
    \/ TickBetweenRuns
    \/ \E u \in Users : StripeCustomerInsert(u)
    \/ \E u \in Users : StripeCustomerTombstone(u)
    \/ \E u \in Users, new \in SubRows : StripeSubscriptionWrite(u, new)
    \/ SssStatement1
    \/ SssStatement2
    \/ SssStatement3

SpecSss == Init /\ [][NextSss]_vars

\* sync_user_state has no lock: its SELECTs and its UPDATE are separate statements.
\* A call first reads the trial and billing rows ...
SusRead(p, u) ==
    /\ u \in auth
    /\ susPc[p] = "idle"
    /\ susPc' = [susPc EXCEPT ![p] = "read"]
    /\ susSnap' = [susSnap EXCEPT ![p] = [user |-> u, err |-> SyncOf(u).err, row |-> SyncOf(u).row]]
    /\ UNCHANGED <<script, now, auth, dbVars, axie, phase, sssPc, hooked, delVars>>

\* ... and later writes what it computed from them
SusWrite(p) ==
    /\ susPc[p] = "read"
    /\ susPc' = [susPc EXCEPT ![p] = "done"]
    /\ IF susSnap[p].err
       THEN UNCHANGED state
       ELSE state' = UpdateState(state, susSnap[p].user, susSnap[p].row)
    /\ phase' = "idle"
    /\ UNCHANGED <<script, now, auth, trial, cust, sub, axie, sssPc, hooked, susSnap, delVars>>

AllSyncsDone == \A p \in Procs : susPc[p] = "done"
NoSyncStarted == \A p \in Procs : susPc[p] = "idle"

\* the billing status write the calls are interleaved with
InterleavedSubscriptionWrite(u, new) ==
    /\ ~AllSyncsDone
    /\ StripeSubscriptionWrite(u, new)

\* what happened before the two calls
BeforeSyncs ==
    /\ NoSyncStarted
    /\ \/ Tick
       \/ \E u \in Users : StripeCustomerInsert(u)
       \/ SyncSubscriptionStatus

NextSus ==
    \/ BeforeSyncs
    \/ \E u \in Users, new \in SubRows : InterleavedSubscriptionWrite(u, new)
    \/ \E p \in Procs, u \in Users : SusRead(p, u)
    \/ \E p \in Procs : SusWrite(p)

SpecSus == Init /\ [][NextSus]_vars

\* C7: once two concurrent sync_user_state calls for a user have both finished, the
\* stored derived state is what one sync_user_state over the final rows writes.
C7_ConcurrentSyncsSerialize ==
    \A u \in auth :
        (AllSyncsDone /\ (\A p \in Procs : susSnap[p].user = u) /\ ~SyncOf(u).err)
            => state[u] = SyncOf(u).row

\* C9: no statement of a running sync_subscription_status moves a user whose
\* subscription is active or trialing when the statement runs, in particular one
\* whose subscription became so during the run, to expired or scheduled_for_deletion.
C9_ProtectionRecheckedPerStatement ==
    [][\A u \in Users :
        (sssPc' # sssPc /\ Paid(u) /\ trial'[u].status # trial[u].status)
            => trial'[u].status \notin {"expired", "scheduled_for_deletion"}]_vars

\* a user whose trial had run out paid between the first and a later statement of a
\* run; the run has finished and the trial was not expired
C9_Witness ==
    \E u \in hooked :
        /\ sssPc = "idle"
        /\ Paid(u)
        /\ trial[u].end < now
        /\ trial[u].status = "active"


\* --------------------------------------------- workspace endpoint and deletion

\* AFTER INSERT ON auth.users, for an account created once the previous one is gone
Signup(u) ==
    /\ auth = {}
    /\ now <= StartTime
    /\ auth' = {u}
    /\ state' = [state EXCEPT ![u] = NewAccountState]
    /\ trial' = [trial EXCEPT ![u] = NewTrial(now)]
    /\ phase' = "idle"
    /\ UNCHANGED <<script, now, cust, sub, axie, concVars, delVars>>

\* what the workspace provider does with a call of deleteAxieStudioUser: the account is
\* deleted, the user list has no such username, or a call is answered non-ok
ProviderOutcomes == {"deleted", "not_found", "failed"}

\* what the workspace provider does with POST /api/v1/users/: it makes an account
\* ("created"), answers ok with the account the username already has ("existing"),
\* refuses the username as taken ("rejected", non-ok), or one of the three calls of
\* createAxieStudioUser fails ("failed")
CreateOutcomes == {"created", "existing", "rejected", "failed"}

\* the provider has nothing to refuse or to return when the username is new
CreateCan(u, provider) ==
    IF axie[u] = "absent" THEN provider \in {"created", "failed"}
    ELSE provider \in CreateOutcomes

\* a handler that goes on with whatever user supabase.auth.getUser returns
Endpoint_TokenUnchecked(method, authHeader, tokenOk, hasBody, action, password, provider) ==
    IF method = "OPTIONS" THEN [status |-> 200, effect |-> "none"]
    ELSE IF ~authHeader THEN [status |-> 401, effect |-> "none"]
    ELSE IF ~hasBody THEN [status |-> 500, effect |-> "none"]
    ELSE IF method = "POST" /\ action = "create"
         THEN IF ~password THEN [status |-> 400, effect |-> "none"]
              ELSE IF provider = "created" THEN [status |-> 200, effect |-> "create"]
              ELSE IF provider = "existing" THEN [status |-> 200, effect |-> "none"]
              ELSE [status |-> 500, effect |-> "none"]
    ELSE IF method = "DELETE" \/ (method = "POST" /\ action = "delete")
         THEN IF provider = "deleted" THEN [status |-> 200, effect |-> "delete"]
              ELSE IF provider = "not_found" THEN [status |-> 200, effect |-> "none"]
              ELSE [status |-> 500, effect |-> "none"]
    ELSE [status |-> 405, effect |-> "none"]

\* The axie-studio-account endpoint (Deno.serve): the HTTP status it answers and what it
\* does to the workspace account.  hasBody: the request carries a JSON body; without one
\* req.json() throws and the outer catch answers 500.
Endpoint(method, authHeader, tokenOk, hasBody, action, password, provider) ==
    IF method = "OPTIONS" THEN [status |-> 200, effect |-> "none"]
    ELSE IF ~authHeader THEN [status |-> 401, effect |-> "none"]
    ELSE IF ~tokenOk THEN [status |-> 401, effect |-> "none"]
    ELSE IF ~hasBody THEN [status |-> 500, effect |-> "none"]
    ELSE IF method = "POST" /\ action = "create"
         THEN IF ~password THEN [status |-> 400, effect |-> "none"]
              ELSE IF provider = "created" THEN [status |-> 200, effect |-> "create"]
              ELSE IF provider = "existing" THEN [status |-> 200, effect |-> "none"]
              ELSE [status |-> 500, effect |-> "none"]
    ELSE IF method = "DELETE" \/ (method = "POST" /\ action = "delete")
         THEN IF provider = "deleted" THEN [status |-> 200, effect |-> "delete"]
              ELSE IF provider = "not_found" THEN [status |-> 200, effect |-> "none"]
              ELSE [status |-> 500, effect |-> "none"]
    ELSE [status |-> 405, effect |-> "none"]

\* the JSON bodies a caller can POST with action 'create': with or without a password,
\* asking for a superuser or not (the endpoint reads action and password only)
CreateBodies == [password : BOOLEAN, is_superuser : BOOLEAN]

\* userData of createAxieStudioUser, step 3
userData_AdminIsSuperuser(email, password) ==
    [username |-> email, password |-> password, is_active |-> TRUE,
     is_superuser |-> (email = SuperAdminId)]

userData(email, password) ==
    [username |-> email, password |-> password, is_active |-> TRUE, is_superuser |-> FALSE]

\* POST {action: 'create', ...} by AuthForm.handleSubmit after signUp or by any holder of
\* the user's token, at any time: createAxieStudioUser looks nothing up before it posts
AxieAccountCreate(u, body, provider) ==
    /\ u \in auth
    /\ delPc = "idle"
    /\ CreateCan(u, provider)
    /\ LET r == Endpoint("POST", TRUE, TRUE, TRUE, "create", body.password, provider)
       IN  /\ axie' = [axie EXCEPT ![u] = IF r.effect # "create" THEN @
                                          ELSE IF @ = "absent" THEN "present"
                                          ELSE "duplicate"]
           /\ sent' = IF body.password /\ provider # "failed"
                      THEN [sent EXCEPT ![u] = [made |-> TRUE, asked |-> body.is_superuser,
                                                userData |-> userData(u, body.password)]]
                      ELSE sent
    /\ UNCHANGED <<script, now, auth, dbVars, phase, concVars, delPc, del, rq, recon>>

Pages == {"UserManagementPage", "DashboardPage"}

\* handleDeleteAccount is entered (the confirmations are given) and getSession answers
DeleteStart(page, u, session) ==
    /\ delPc = "idle"
    /\ u \in auth
    /\ delPc' = "session"
    /\ del' = [page |-> page, user |-> u, session |-> session, resp |-> "none",
               localDeleted |-> FALSE]
    /\ UNCHANGED <<script, now, auth, dbVars, axie, phase, concVars, sent, rq, recon>>

\* the provider can only delete an account that is there
ProviderCan(u, provider) ==
    IF axie[u] # "absent" THEN provider \in {"deleted", "failed"}
    ELSE provider \in {"not_found", "failed"}

\* users.find returns the first account of the username and that one is deleted
AfterEffect(a, effect) ==
    IF effect # "delete" THEN a
    ELSE IF a = "duplicate" THEN "present"
    ELSE "absent"

\* "Delete Axie Studio account first": fetch(..., {method: 'DELETE', headers: {Authorization}}),
\* a request without a body; fetch rejects only when the network fails
DeleteCallWorkspace(network, tokenOk, provider) ==
    /\ delPc = "session"
    /\ delPc' = "called"
    /\ ProviderCan(del.user, provider)
    /\ IF ~del.session
       THEN UNCHANGED <<del, axie>>
       ELSE IF ~network
       THEN /\ del' = [del EXCEPT !.resp = "rejected"]
            /\ UNCHANGED axie
       ELSE LET r == Endpoint("DELETE", TRUE, tokenOk, FALSE, "none", FALSE, provider)
            IN  /\ del' = [del EXCEPT !.resp = IF r.status = 200 THEN "ok" ELSE "error"]
                /\ axie' = [axie EXCEPT ![del.user] = AfterEffect(@, r.effect)]
    /\ UNCHANGED <<script, now, auth, dbVars, phase, concVars, sent, rq, recon>>

\* DELETE FROM auth.users: the rows of the user go with it only where every reference
\* is ON DELETE CASCADE (FINAL); COMPLETE's user_trials reference refuses the delete
DeleteUserSucceeds(u, adminApi) == adminApi /\ script = "FINAL"

\* the rest of handleDeleteAccount: UserManagementPage calls auth.admin.deleteUser unless
\* the fetch rejected; DashboardPage only signs out
DeleteLocal(adminApi) ==
    /\ delPc = "called"
    /\ delPc' = "done"
    /\ IF /\ del.page = "UserManagementPage"
          /\ del.resp # "rejected"
          /\ DeleteUserSucceeds(del.user, adminApi)
       THEN /\ auth' = auth \ {del.user}
            /\ trial' = [trial EXCEPT ![del.user] = NoTrial]
            /\ cust' = [cust EXCEPT ![del.user] = "none"]
            /\ sub' = [sub EXCEPT ![del.user] = NoSub]
            /\ state' = [state EXCEPT ![del.user] = NoState]
            /\ del' = [del EXCEPT !.localDeleted = TRUE]
       ELSE UNCHANGED <<auth, dbVars, del>>
    /\ UNCHANGED <<script, now, axie, phase, concVars, sent, rq, recon>>

\* the page is left; the handler can be entered again
DeleteReturn ==
    /\ delPc = "done"
    /\ delPc' = "idle"
    /\ del' = NoDel
    /\ UNCHANGED <<script, now, auth, dbVars, axie, phase, concVars, sent, rq, recon>>

NextDel ==
    \/ \E u \in Users : Signup(u)
    \/ \E u \in Users, body \in CreateBodies, provider \in CreateOutcomes :
            AxieAccountCreate(u, body, provider)
    \/ \E page \in Pages, u \in Users, session \in BOOLEAN : DeleteStart(page, u, session)
    \/ \E network \in BOOLEAN, tokenOk \in BOOLEAN, provider \in ProviderOutcomes :
            DeleteCallWorkspace(network, tokenOk, provider)
    \/ \E adminApi \in BOOLEAN : DeleteLocal(adminApi)
    \/ DeleteReturn

SpecDel == Init /\ [][NextDel]_vars

\* C4: the local account is removed only after the workspace deletion call has reported
\* success; after a failed workspace deletion the account is still there.
C4_LocalDeletionOnlyAfterWorkspaceSuccess ==
    del.localDeleted => del.resp = "ok"

\* C30: every account creation request sent to the workspace provider carries
\* is_superuser = false, whoever the user is and whatever the caller put in the body.
C30_NeverSuperuser ==
    \A u \in Users : sent[u].made => sent[u].userData.is_superuser = FALSE

\* creation requests have been sent for the administrative identity or with a body that
\* asks for a superuser
C30_Witness ==
    \E u \in Users :
        /\ sent[u].made
        /\ sent[u].asked
        /\ axie[u] # "absent"
        /\ sent[u].userData.username = u

\* C25: creating the workspace account of a user who already has one is a no-op that
\* answers success with the existing account, whatever a working provider does with the
\* second request; at most one external account exists per user.
C25_CreateIdempotent ==
    \A u \in auth :
        /\ axie[u] # "duplicate"
        /\ axie[u] = "present" =>
              \A provider \in CreateOutcomes \ {"failed"} :
                  CreateCan(u, provider) =>
                      LET r == Endpoint("POST", TRUE, TRUE, TRUE, "create", TRUE, provider)
                      IN  r.status = 200 /\ r.effect = "none"


\* --------------------------------------------- concurrent delete requests

\* the requests for the delete branch: DELETE (the pages send it without a body) and
\* POST {action: 'delete'}, with or without Authorization header, with a token that
\* resolves to the user or not
DeleteRequests == [method : {"DELETE", "POST"}, hasBody : BOOLEAN,
                   authHeader : BOOLEAN, tokenOk : BOOLEAN]

\* Deno.serve up to deleteAxieStudioUser's users.find: a request that does not get as far
\* as the delete branch (no header, no user for the token, no body for req.json()) is
\* answered at once; otherwise the user list is read
RequestLookup(p, u, req) ==
    /\ rq[p].pc = "idle"
    /\ u \in auth
    /\ LET early == Endpoint(req.method, req.authHeader, req.tokenOk, req.hasBody, "delete",
                             FALSE, "not_found")
           authorized == req.authHeader /\ req.tokenOk
       IN  rq' = [rq EXCEPT ![p] =
                    IF early.status # 200
                    THEN [pc |-> "done", user |-> u, authorized |-> authorized,
                          found |-> FALSE, answer |-> "none", status |-> early.status]
                    ELSE [pc |-> "looked", user |-> u, authorized |-> authorized,
                          found |-> axie[u] # "absent", answer |-> "none", status |-> 0]]
    /\ UNCHANGED <<script, now, auth, dbVars, axie, phase, concVars, delPc, del, sent, recon>>

\* what the provider answers to DELETE /api/v1/users/{id}: an id that is gone by now is
\* refused ("gone", non-ok) or accepted
DeleteCan(u, answer) ==
    IF axie[u] # "absent" THEN answer \in {"deleted", "failed"}
    ELSE answer \in {"deleted", "gone", "failed"}

\* the rest of deleteAxieStudioUser and the response
RequestDelete(p, answer) ==
    /\ rq[p].pc = "looked"
    /\ IF ~rq[p].found
       THEN /\ answer = "not_found"
            /\ UNCHANGED axie
       ELSE /\ DeleteCan(rq[p].user, answer)
            /\ axie' = [axie EXCEPT ![rq[p].user] =
                          AfterEffect(@, Endpoint("POST", TRUE, TRUE, TRUE, "delete", FALSE,
                                                  answer).effect)]
    /\ rq' = [rq EXCEPT ![p].pc = "done",
                        ![p].answer = answer,
                        ![p].status = Endpoint("POST", TRUE, TRUE, TRUE, "delete", FALSE,
                                               answer).status]
    /\ UNCHANGED <<script, now, auth, dbVars, phase, concVars, delPc, del, sent, recon>>

RequestReturn(p) ==
    /\ rq[p].pc = "done"
    /\ rq' = [rq EXCEPT ![p] = NoRq]
    /\ UNCHANGED <<script, now, auth, dbVars, axie, phase, concVars, delPc, del, sent, recon>>

NextReq ==
    \/ \E u \in Users, body \in CreateBodies, provider \in CreateOutcomes :
            AxieAccountCreate(u, body, provider)
    \/ \E p \in Procs, u \in Users, req \in DeleteRequests : RequestLookup(p, u, req)
    \/ \E p \in Procs, answer \in ProviderOutcomes \cup {"gone"} : RequestDelete(p, answer)
    \/ \E p \in Procs : RequestReturn(p)

SpecReq == Init /\ [][NextReq]_vars

\* C26: every delete request the provider does not fail, repeated or concurrent, for an
\* account that exists or not, is answered with success and leaves the user without
\* workspace account.
C26_DeleteIdempotent ==
    [][\A p \in Procs :
          (rq[p].pc # "done" /\ rq'[p].pc = "done" /\ rq'[p].authorized
              /\ rq'[p].answer # "failed") =>
              /\ rq'[p].status = 200
              /\ axie'[rq'[p].user] = "absent"]_vars


\* ---------------------------------------------------- rescue and the timeline

\* a run of the trial pass: sync_subscription_status on its own, inside
\* check_expired_trials, or in the closing statements of COMPLETE
TrialPass == SyncSubscriptionStatus \/ CheckExpiredTrials \/ CompleteInitialSync

\* C11: a user scheduled for deletion whose subscription becomes active or trialing is
\* never returned by get_users_for_deletion while the subscription is so, every trial
\* pass and every protect_paying_customers run turns the trial into converted_to_paid
\* with deletion_scheduled_at null, and sync_user_state gives the user has_access.
C11_RescueFromScheduledDeletion ==
    /\ [](\A u \in auth : Paid(u) => u \notin get_users_for_deletion)
    /\ [][\A u \in auth :
            (trial[u].status = "scheduled_for_deletion" /\ Paid(u)) =>
                /\ (TrialPass \/ ProtectPayingCustomers)
                      => (trial'[u].status = "converted_to_paid" /\ trial'[u].dsa = NULL)
                /\ SyncUserState(u) => has_access(u)']_vars

\* the subscription of a user scheduled for deletion, past the grace period, has become
\* active or trialing and no reconciler has run yet: the sweeper leaves the user out
C11_Witness ==
    \E u \in auth :
        /\ trial[u].status = "scheduled_for_deletion"
        /\ trial[u].end < now - Grace
        /\ Paid(u)
        /\ phase = "sub_write"
        /\ u \notin get_users_for_deletion


\* the database before anybody has signed up
InitEmpty ==
    /\ script \in {"COMPLETE", "FINAL"}
    /\ now = 0
    /\ auth = {}
    /\ trial = [u \in Users |-> NoTrial]
    /\ state = [u \in Users |-> NoState]
    /\ cust = [u \in Users |-> "none"]
    /\ sub = [u \in Users |-> NoSub]
    /\ Quiet

\* a user signs up and only the clock and the reconciler act afterwards
NextTimeline ==
    \/ \E u \in Users : Signup(u)
    \/ Tick
    \/ SyncSubscriptionStatus
    \/ CheckExpiredTrials
    \/ \E u \in Users : SyncUserState(u)

SpecTimeline == InitEmpty /\ [][NextTimeline]_vars

\* C12: an ordinary user created at T0 without billing linkage starts with an active
\* trial ending at T0 + 7 days, has_access true and access_level trial; a trial pass one
\* tick after the end expires the trial with deletion_scheduled_at = T0 + 8 days + 1
\* tick; a trial pass at T0 + 8 days + 2 ticks schedules it for deletion, and
\* get_users_for_deletion then returns the user.
C12_EndToEndTimeline ==
    [][\A u \in Users \ {SuperAdminId} :
        /\ Signup(u) =>
              /\ trial'[u].status = "active"
              /\ trial'[u].end = now + TrialLength
              /\ has_access(u)'
              /\ access_level(u)' = "trial"
        /\ (u \in auth /\ cust[u] = "none" /\ TrialPass) =>
              LET T0 == trial[u].end - TrialLength
              IN  /\ (trial[u].status = "active" /\ now = T0 + TrialLength + 1) =>
                        /\ trial'[u].status = "expired"
                        /\ trial'[u].dsa = T0 + TrialLength + Grace + 1
                  /\ (/\ trial[u].status = "expired"
                      /\ trial[u].dsa = T0 + TrialLength + Grace + 1
                      /\ now = T0 + TrialLength + Grace + 2) =>
                        /\ trial'[u].status = "scheduled_for_deletion"
                        /\ u \in get_users_for_deletion']_vars

\* the end of the timeline: expired one tick after the trial's end, scheduled two ticks
\* after the grace period, and returned by the sweeper
C12_Witness ==
    \E u \in auth \ {SuperAdminId} :
        /\ cust[u] = "none"
        /\ phase = "trials"
        /\ now = trial[u].end + Grace + 2
        /\ trial[u].dsa = trial[u].end + Grace + 1
        /\ trial[u].status = "scheduled_for_deletion"
        /\ u \in get_users_for_deletion


\* ------------------------------------------------- the steps of the trial pass

\* neither the administrative identity nor a paying customer
Unprotected(u) == u # SuperAdminId /\ ~Paid(u)

\* C13: a trial pass at time t takes an unprotected active trial whose end lies two days
\* or more in the past to expired with deletion_scheduled_at = t + 1 day, not to
\* scheduled_for_deletion, and a row becomes scheduled_for_deletion only from expired
\* and only at a time that is not earlier than its deletion_scheduled_at.
C13_MonotonicGracePeriod ==
    [][\A u \in auth :
        /\ (/\ TrialPass
            /\ Unprotected(u)
            /\ trial[u].status = "active"
            /\ trial[u].end <= now - 2 * Day) =>
              /\ trial'[u].status = "expired"
              /\ trial'[u].dsa = now + Grace
        /\ (trial'[u].status = "scheduled_for_deletion"
                /\ trial[u].status # "scheduled_for_deletion") =>
              /\ trial[u].status = "expired"
              /\ trial[u].dsa # NULL
              /\ trial[u].dsa <= now]_vars

\* a trial first looked at two days after its end: expired, with a day of grace ahead
C13_Witness ==
    \E u \in auth :
        /\ Unprotected(u)
        /\ phase = "trials"
        /\ trial[u].end <= now - 2 * Day
        /\ trial[u].status = "expired"
        /\ trial[u].dsa = now + Grace

\* C14: a trial pass at any time now with trial_end_date <= now, the instant
\* now = trial_end_date included, takes an unprotected active trial to expired with
\* deletion_scheduled_at = now + 1 day.
C14_ExpiryBoundaryInclusive ==
    [][\A u \in auth :
        (/\ TrialPass
         /\ Unprotected(u)
         /\ trial[u].status = "active"
         /\ trial[u].end <= now) =>
            /\ trial'[u].status = "expired"
            /\ trial'[u].dsa = now + Grace]_vars

\* what a trial pass leaves alone: no identity, billing, workspace or trial record goes
MarksOnly(u) ==
    /\ UNCHANGED <<auth, cust, sub, axie>>
    /\ trial'[u].status # "none"
    /\ trial'[u].end = trial[u].end
    /\ state'[u] # NoState

\* C15 as stated: a trial pass at any time now >= deletion_scheduled_at, the instant
\* now = deletion_scheduled_at included, takes an unprotected expired trial to
\* scheduled_for_deletion and deletes nothing.
C15_SchedulingBoundaryInclusive ==
    [][\A u \in auth :
        (/\ TrialPass
         /\ Unprotected(u)
         /\ trial[u].status = "expired"
         /\ trial[u].dsa # NULL
         /\ trial[u].dsa <= now) =>
            /\ trial'[u].status = "scheduled_for_deletion"
            /\ MarksOnly(u)]_vars

\* C15 amended: a trial pass at a time now later than deletion_scheduled_at takes an
\* unprotected expired trial to scheduled_for_deletion, at the instant
\* now = deletion_scheduled_at it leaves the trial expired, and in both cases it
\* deletes nothing.
C15_SchedulingBoundaryStrict ==
    [][\A u \in auth :
        (/\ TrialPass
         /\ Unprotected(u)
         /\ trial[u].status = "expired"
         /\ trial[u].dsa # NULL) =>
            /\ trial[u].dsa < now => trial'[u].status = "scheduled_for_deletion"
            /\ trial[u].dsa = now => trial'[u].status = "expired"
            /\ MarksOnly(u)]_vars

\* a row just marked: its deletion date has passed and every record is still there
C15_Witness ==
    \E u \in auth :
        /\ Unprotected(u)
        /\ phase = "trials"
        /\ trial[u].status = "scheduled_for_deletion"
        /\ trial[u].dsa < now
        /\ trial[u].end >= now - Grace - Day
        /\ state[u] # NoState


\* ------------------------------------------------------------------ protection

\* the protection guard as specified: the administrative identity or a paying customer
Protected(u) == u = SuperAdminId \/ Paid(u)

\* C16 as stated: a trial pass forces the trial of every protected user, the
\* administrative identity without subscription included, to converted_to_paid with
\* deletion_scheduled_at null.
C16_ProtectionForcesConversion ==
    [][\A u \in auth :
        (TrialPass /\ Protected(u)) =>
            (trial'[u].status = "converted_to_paid" /\ trial'[u].dsa = NULL)]_vars

\* C16 amended: a trial pass forces the trial of every user with a live active or
\* trialing subscription, the administrative identity included, to converted_to_paid
\* with deletion_scheduled_at null; the administrative identity without such a
\* subscription is not converted by the run.
C16_PaidForcesConversion ==
    [][\A u \in auth :
        /\ (TrialPass /\ Paid(u)) =>
              (trial'[u].status = "converted_to_paid" /\ trial'[u].dsa = NULL)
        /\ (TrialPass /\ u = SuperAdminId /\ ~Paid(u)) =>
              (trial'[u].status = "converted_to_paid"
                    => trial[u].status = "converted_to_paid")]_vars

\* the administrative identity pays and a trial pass under FINAL has converted it
C16_Witness ==
    /\ script = "FINAL"
    /\ SuperAdminId \in auth
    /\ Paid(SuperAdminId)
    /\ phase = "trials"
    /\ trial[SuperAdminId].status = "converted_to_paid"
    /\ trial[SuperAdminId].dsa = NULL

\* verify_user_protection(p_user_id).is_protected
verify_user_protection(u) ==
    IF script = "FINAL"
    THEN \/ u = SuperAdminId
         \/ /\ cust[u] # "none"
            /\ sub[u].status \in {"active", "trialing"}
            /\ ~sub[u].deleted
    ELSE \/ /\ cust[u] = "live"
            /\ sub[u].status \in {"active", "trialing"}
            /\ ~sub[u].deleted
         \/ trial[u].status = "converted_to_paid"

\* useUserAccess over the base tables: access_type from the subscription of the live
\* customer row
access_type(u) ==
    IF cust[u] = "live" /\ sub[u].status = "active" THEN "paid_subscription"
    ELSE IF cust[u] = "live" /\ sub[u].status = "trialing" THEN "stripe_trial"
    ELSE IF trial[u].status = "active" /\ trial[u].end > now THEN "free_trial"
    ELSE "no_access"

\* useUserAccess.isProtected
isProtected(u) ==
    \/ access_type(u) = "paid_subscription"
    \/ access_type(u) = "stripe_trial"
    \/ trial[u].status = "converted_to_paid"

\* C17: verify_user_protection and the page's isProtected report a user protected
\* exactly when it is the administrative identity or its live subscription is active or
\* trialing.
C17_ProtectedIffAdminOrPaid ==
    \A u \in auth :
        /\ verify_user_protection(u) <=> Protected(u)
        /\ isProtected(u) <=> Protected(u)


\* ------------------------------------------------------------- the classifier

\* the status of the user's non-tombstoned billing linkage
BillingStatus(u) ==
    IF cust[u] = "live" /\ sub[u].status # "none" /\ ~sub[u].deleted
    THEN sub[u].status
    ELSE "none"

C19_PastDueSuspends ==
    \A u \in auth :
        BillingStatus(u) = "past_due" =>
            /\ ~SyncOf(u).err
            /\ SyncOf(u).row.access_level = "suspended"
            /\ ~SyncOf(u).row.has_access
            /\ SyncOf(u).row.account_status = "subscription_past_due"

\* C20: for billing status canceled and unpaid alike sync_user_state yields
\* access_level trial and account_status subscription_canceled, with has_access true
\* exactly when the trial is active and ends later than now.
C20_CanceledAndUnpaidFallBack ==
    \A u \in auth :
        BillingStatus(u) \in {"canceled", "unpaid"} =>
            /\ ~SyncOf(u).err
            /\ SyncOf(u).row.access_level = "trial"
            /\ SyncOf(u).row.account_status = "subscription_canceled"
            /\ SyncOf(u).row.has_access
                  <=> (trial[u].status = "active" /\ trial[u].end > now)


\* useTrialStatus.isTrialActive, over the days_remaining of user_trial_info
isTrialActive(u) ==
    /\ trial[u].status = "active"
    /\ TrialDaysRemaining(trial[u]) > 0

\* C21: without billing relationship a trial that is active and ends later than now,
\* however little time is left, is classified access_level trial, has_access true,
\* account_status trial_active, and the page reports the trial active.
C21_ActiveTrialGrantsAccess ==
    \A u \in auth :
        (BillingStatus(u) = "none" /\ trial[u].status = "active" /\ trial[u].end > now) =>
            /\ ~SyncOf(u).err
            /\ SyncOf(u).row.access_level = "trial"
            /\ SyncOf(u).row.has_access
            /\ SyncOf(u).row.account_status = "trial_active"
            /\ isTrialActive(u)

\* a user has paid before
PreviouslyPaid(u) == trial[u].status = "converted_to_paid" \/ sub[u].status # "none"

\* C22: without billing relationship a trial that is not (active and ending later than
\* now) is classified has_access false, account_status trial_expired, and access_level
\* none, or suspended for a user who has paid before.
C22_OtherwiseNoAccess ==
    \A u \in auth :
        (BillingStatus(u) = "none" /\ ~(trial[u].status = "active" /\ trial[u].end > now)) =>
            /\ ~SyncOf(u).err
            /\ ~SyncOf(u).row.has_access
            /\ SyncOf(u).row.account_status = "trial_expired"
            /\ SyncOf(u).row.access_level =
                  (IF PreviouslyPaid(u) THEN "suspended" ELSE "none")

\* C23: sync_user_state raises no error, whatever rows the user has or lacks.
C23_ClassifierNeverFails ==
    \A u \in auth : ~SyncOf(u).err


\* ------------------------------------------------------------ the batch pass

\* both accounts signed up at time 0 and have not been touched since
InitBoth ==
    /\ script \in {"COMPLETE", "FINAL"}
    /\ now = StartTime
    /\ auth = Users
    /\ trial = [u \in Users |-> NewTrial(0)]
    /\ state = [u \in Users |-> NewAccountState]
    /\ cust = [u \in Users |-> "none"]
    /\ sub = [u \in Users |-> NoSub]
    /\ Quiet

NextBatch ==
    \/ Tick
    \/ \E u \in Users : StripeCustomerInsert(u)
    \/ SyncSubscriptionStatus
    \/ SyncAllUsers

SpecBatch == InitBoth /\ [][NextBatch]_vars

\* C24: when sync_user_state fails for one user, sync_all_users still reconciles every
\* other user: the batch leaves each user for whom sync_user_state does not fail with
\* the row sync_user_state writes.
C24_BatchContinuesOnError ==
    \A u \in auth :
        ~SyncOf(u).err => sync_all_users(state)[u] = SyncOf(u).row


\* --------------------------------------------- setup on a database with accounts

\* The database right after the tables, functions and triggers of the script have been
\* created in a project whose auth.users already holds accounts: neither script gives
\* these accounts a user_trials or user_account_state row when it creates the tables
InitExisting ==
    /\ script \in {"COMPLETE", "FINAL"}
    /\ now = StartTime
    /\ auth \in SUBSET Users
    /\ trial = [u \in Users |-> NoTrial]
    /\ state = [u \in Users |-> NoState]
    /\ cust = [u \in Users |-> "none"]
    /\ sub = [u \in Users |-> NoSub]
    /\ Quiet

\* on_auth_user_created_enhanced for NEW.id = u, a new identity or the creation event of
\* an identity the trigger has handled before.  The account state is inserted ON CONFLICT
\* DO NOTHING in both scripts; the trial is inserted ON CONFLICT DO NOTHING in FINAL and
\* plainly in COMPLETE, where UNIQUE (user_id) raises and the event changes nothing.
OnAuthUserCreated(u) ==
    /\ u \notin auth \/ trial[u] # NoTrial
    /\ IF trial[u] # NoTrial
       THEN UNCHANGED <<auth, trial, state>>
       ELSE /\ auth' = auth \cup {u}
            /\ trial' = [trial EXCEPT ![u] = NewTrial(now)]
            /\ state' = [state EXCEPT ![u] = IF @ = NoState THEN NewAccountState ELSE @]
    /\ phase' = "idle"
    /\ UNCHANGED <<script, now, cust, sub, axie, concVars, delVars>>

NextSetup ==
    \/ \E u \in Users : OnAuthUserCreated(u)
    \/ Tick
    \/ SuperAdminInit
    \/ CompleteInitialSync
    \/ SyncSubscriptionStatus
    \/ \E u \in Users : SyncUserState(u)
    \/ SyncAllUsers

SpecSetup == InitExisting /\ [][NextSetup]_vars

\* C27: after any sequence of account creations, repeated creation events and setup
\* blocks every user has a trial record (UNIQUE (user_id) allows one at most), and every
\* trial record is created active with trial_end_date = trial_start_date + 7 days.
C27_OneSevenDayTrialPerUser ==
    /\ [](\A u \in auth : trial[u] # NoTrial)
    /\ [][\A u \in Users :
            (trial[u] = NoTrial /\ trial'[u] # NoTrial) =>
                /\ trial'[u].end = now + TrialLength
                /\ trial'[u].status = "active"]_vars

\* C28: the row sync_user_state writes is computed from the trial and billing rows and
\* the clock alone, whatever the user's derived row held before, and where the derived
\* row is missing a reconcile run, of one user or of all, puts the same row there.
C28_DerivedStateIsPureCache ==
    \A u \in auth :
        /\ ~SyncOf(u).err =>
              \A prev \in {state[u], NewAccountState} :
                  UpdateState([state EXCEPT ![u] = prev], u, SyncOf(u).row)[u] = SyncOf(u).row
        /\ (\A v \in auth : ~SyncOf(v).err) => sync_all_users(state)[u] = SyncOf(u).row


\* --------------------------------------------- callers of the trial reconciliation

\* SELECT check_expired_trials(): PERFORM protect_paying_customers(), then
\* PERFORM sync_subscription_status(), in one transaction
CheckExpiredTrialsCall ==
    /\ trial' = check_expired_trials(trial)
    /\ recon' = [caller |-> "check_expired_trials",
                 ran |-> <<"protect_paying_customers", "sync_subscription_status">>]
    /\ phase' = "trials"
    /\ UNCHANGED <<script, now, auth, cust, sub, state, axie, concVars, delPc, del, sent, rq>>

\* useSubscription.fetchSubscription of a user whose subscription_status is active or
\* trialing: await supabase.rpc('sync_subscription_status') ...
FetchSubscriptionFirstRpc(u) ==
    /\ u \in auth
    /\ Paid(u)
    /\ ~(recon.caller = "fetchSubscription" /\ Len(recon.ran) = 1)
    /\ trial' = sync_subscription_status(trial)
    /\ recon' = [caller |-> "fetchSubscription", ran |-> <<"sync_subscription_status">>]
    /\ phase' = "trials"
    /\ UNCHANGED <<script, now, auth, cust, sub, state, axie, concVars, delPc, del, sent, rq>>

\* ... and then await supabase.rpc('protect_paying_customers')
FetchSubscriptionSecondRpc ==
    /\ recon.caller = "fetchSubscription"
    /\ Len(recon.ran) = 1
    /\ trial' = protect_paying_customers(trial)
    /\ recon' = [recon EXCEPT !.ran = Append(@, "protect_paying_customers")]
    /\ phase' = "idle"
    /\ UNCHANGED <<script, now, auth, cust, sub, state, axie, concVars, delPc, del, sent, rq>>

\* "Run initial sync to ensure data consistency" of COMPLETE:
\* SELECT sync_subscription_status(); SELECT protect_paying_customers();
InitialSyncStatements ==
    /\ script = "COMPLETE"
    /\ trial' = protect_paying_customers(sync_subscription_status(trial))
    /\ recon' = [caller |-> "setup",
                 ran |-> <<"sync_subscription_status", "protect_paying_customers">>]
    /\ phase' = "trials"
    /\ UNCHANGED <<script, now, auth, cust, sub, state, axie, concVars, delPc, del, sent, rq>>

NextRecon ==
    \/ Tick
    \/ \E u \in Users : StripeCustomerInsert(u)
    \/ \E u \in Users, new \in SubRows : StripeSubscriptionWrite(u, new)
    \/ CheckExpiredTrialsCall
    \/ \E u \in Users : FetchSubscriptionFirstRpc(u)
    \/ FetchSubscriptionSecondRpc
    \/ InitialSyncStatements

SpecRecon == Init /\ [][NextRecon]_vars

\* C29: whoever runs the trial reconciliation runs protect_paying_customers first and
\* sync_subscription_status second; no caller has run the sync phase before the protect
\* phase.
C29_ProtectBeforeSync ==
    /\ Len(recon.ran) >= 1 => recon.ran[1] = "protect_paying_customers"
    /\ Len(recon.ran) >= 2 => recon.ran[2] = "sync_subscription_status"


\* ------------------------------------------------- the two phases of the trial pass

\* C31: at one clock value and for the trial and billing rows as they are,
\* protect_paying_customers followed by sync_subscription_status, the two in the reverse
\* order, and sync_subscription_status alone leave the same user_trials rows.
C31_ProtectSubsumedBySync ==
    /\ check_expired_trials(trial) = sync_subscription_status(trial)
    /\ protect_paying_customers(sync_subscription_status(trial)) = sync_subscription_status(trial)

\* the protect phase has something to do: a payment has arrived for a trial that is
\* expired or scheduled for deletion, and no reconciler has run since
C31_Witness ==
    /\ phase = "sub_write"
    /\ protect_paying_customers(trial) # trial
    /\ \E u \in auth : trial[u].status = "scheduled_for_deletion" /\ Paid(u)


\* C32: once a user's trial_status is converted_to_paid, by payment or by
\* mark_trial_converted, no later billing change (cancellation, past_due, tombstoning)
\* and no reconciler run moves it to expired or scheduled_for_deletion, and
\* get_users_for_deletion never returns the user.
C32_ConvertedIsAbsorbing ==
    \A u \in Users :
        [](trial[u].status = "converted_to_paid" =>
              [](/\ trial[u].status \notin {"expired", "scheduled_for_deletion"}
                 /\ u \notin get_users_for_deletion))

\* a converted user whose subscription is gone or tombstoned, past the end of the trial
\* and the grace period, right after a trial pass
C32_Witness ==
    \E u \in auth :
        /\ trial[u].status = "converted_to_paid"
        /\ ~Paid(u)
        /\ sub[u].status \in {"canceled", "past_due"} \/ cust[u] = "tomb"
        /\ trial[u].end < now - Grace
        /\ phase = "trials"


\* C34: a user that sync_subscription_status has moved to scheduled_for_deletion has
\* trial_end_date < now - 1 day at the step that moves it and for as long as it stays
\* scheduled, so the grace-period condition of get_users_for_deletion withholds no user
\* the reconciler has marked.
C34_GraceCheckImplied ==
    /\ [](\A u \in auth :
            trial[u].status = "scheduled_for_deletion" => trial[u].end < now - Grace)
    /\ [][\A u \in auth :
            (trial[u].status # "scheduled_for_deletion"
                /\ trial'[u].status = "scheduled_for_deletion") =>
                    trial'[u].end < now' - Grace]_vars
    /\ [](\A u \in auth :
            (trial[u].status = "scheduled_for_deletion" /\ NotSuperAdmin(u) /\ ~Paid(u)) =>
                u \in get_users_for_deletion)

\* scheduled at the first moment the third UPDATE can take the row: the trial pass ran
\* one tick after the end of the trial and again one tick after deletion_scheduled_at
C34_Witness ==
    \E u \in auth :
        /\ trial[u].status = "scheduled_for_deletion"
        /\ phase = "trials"
        /\ trial[u].dsa = trial[u].end + 1 + Grace
        /\ now = trial[u].dsa + 1
        /\ u \in get_users_for_deletion


\* ------------------------------------------------------------ liveness of expiry

\* the clock of a deployment in which the trial pass is scheduled more often than the
\* clock unit: a pass has run since the last change before the clock moves on
TickAfterPass ==
    /\ phase = "trials"
    /\ Tick

NextLive ==
    \/ TickAfterPass
    \/ CheckExpiredTrials
    \/ \E u \in Users : StripeCustomerInsert(u)
    \/ \E u \in Users : StripeCustomerTombstone(u)
    \/ \E u \in Users, new \in SubRows : StripeSubscriptionWrite(u, new)

\* check_expired_trials keeps being run and time keeps advancing
SpecLive ==
    /\ Init
    /\ [][NextLive]_vars
    /\ WF_vars(CheckExpiredTrials)
    /\ SF_vars(TickAfterPass)

\* the user's subscription row, if there is one, is neither active nor trialing
NeverSubscribed(u) == sub[u].status \notin {"active", "trialing"}

C35_TrialAndDerivedStateAgree ==
    \A u \in auth :
        phase = "full" =>
            /\ has_access(u) => trial[u].status \notin {"expired", "scheduled_for_deletion"}
            /\ (trial[u].status = "active" /\ trial[u].end > now /\ cust[u] = "none")
                  => has_access(u)


\* --------------------------------------------------------- the two setup scripts

\* C36: from the same trial and billing rows at the same clock value the reconcilers of
\* COMPLETE and of FINAL give every user other than the administrative identity the same
\* trial_status, deletion_scheduled_at and has_access.  The three UPDATEs of
\* sync_subscription_status differ between the scripts in the NotSuperAdmin conjunct
\* only, so for these users the trial rows are those of one definition, and what is left
\* to compare is sync_user_state: FINAL's does not raise, and writes the has_access
\* COMPLETE's writes.
C36_ScriptsAgree ==
    \A u \in auth \ {SuperAdminId} :
        /\ ~FinalSyncRaises(cust[u], sub[u])
        /\ FinalSyncRow(trial[u], cust[u], sub[u]).has_access
              = CompleteSyncRow(trial[u], cust[u], sub[u]).has_access


\* ------------------------------------------------------------ tombstoned billing

\* the user's billing rows carry a tombstone: deleted_at is set on the customer row or
\* on a subscription row whose status is active or trialing
Tombstoned(u) ==
    /\ cust[u] # "none"
    /\ sub[u].status \in {"active", "trialing"}
    /\ cust[u] = "tomb" \/ sub[u].deleted

\* C37: tombstoned billing rows, even with status active or trialing, convert no trial,
\* block neither expiry nor scheduling, yield no has_access, make verify_user_protection
\* report nobody protected and keep nobody out of get_users_for_deletion: every function
\* gives a user with such rows what it gives the user without billing rows.
C37_TombstonesConferNothing ==
    \A u \in auth \ {SuperAdminId} :
      /\ \A new \in SubRows :
            (script = "COMPLETE" /\ cust[u] # "none" /\ (new.deleted \/ cust[u] = "tomb")) =>
                CompleteOnSubscriptionChange(trial, u, new)[u] = trial[u]
      /\ Tombstoned(u) =>
            /\ ~ConvertWhere(trial, u)
            /\ protect_paying_customers(trial)[u] = trial[u]
            /\ ExpireWhere(trial, u) <=> (trial[u].status = "active" /\ trial[u].end < now)
            /\ ScheduleWhere(trial, u) <=>
                  (trial[u].status = "expired" /\ trial[u].dsa # NULL /\ trial[u].dsa < now)
            /\ u \in get_users_for_deletion <=>
                  (trial[u].status = "scheduled_for_deletion" /\ trial[u].end < now - Grace)
            /\ ~SyncOf(u).err
            /\ SyncOf(u).row.has_access = sync_user_state(trial[u], "none", NoSub).row.has_access
            /\ verify_user_protection(u) =>
                  (script = "COMPLETE" /\ trial[u].status = "converted_to_paid")


\* ---------------------------------------------------------------------------------------
\* C38: the endpoint makes no call that creates or deletes a workspace account unless the
\* Authorization header is present and its token resolves to a user: a request without
\* the header or with a token that resolves to nobody is answered 401 and leaves the
\* workspace as it was, and a create without a password is answered 400 and creates
\* nothing.  (An OPTIONS preflight is answered 200 before the header is read; it makes no
\* call either.)
Methods == {"OPTIONS", "GET", "POST", "DELETE"}

BodyActions == {"create", "delete", "other"}

C38_NoCallWithoutUser ==
    /\ [](\A method \in Methods, authHeader \in BOOLEAN, tokenOk \in BOOLEAN,
            hasBody \in BOOLEAN, action \in BodyActions, password \in BOOLEAN,
            provider \in CreateOutcomes \cup ProviderOutcomes :
            LET r == Endpoint(method, authHeader, tokenOk, hasBody, action, password, provider)
            IN  /\ (~authHeader \/ ~tokenOk) =>
                      /\ r.effect = "none"
                      /\ method # "OPTIONS" => r.status = 401
                /\ (authHeader /\ tokenOk /\ hasBody /\ method = "POST"
                      /\ action = "create" /\ ~password) =>
                      /\ r.effect = "none"
                      /\ r.status = 400)
    /\ [][\A p \in Procs :
            (rq[p].pc = "idle" /\ rq'[p].pc # "idle" /\ ~rq'[p].authorized) =>
                /\ rq'[p].pc = "done"
                /\ rq'[p].status = 401
                /\ axie' = axie]_vars
    /\ [][\A u \in Users, body \in CreateBodies, provider \in CreateOutcomes :
            (~body.password /\ AxieAccountCreate(u, body, provider)) =>
                /\ axie' = axie
                /\ sent' = sent]_vars

\* a request without a user for its token has been answered 401 while the user's workspace
\* account is still there
C38_Witness ==
    \E p \in Procs :
        /\ rq[p].pc = "done"
        /\ ~rq[p].authorized
        /\ rq[p].status = 401
        /\ axie[rq[p].user] = "present"

=============================================================================
